---- MODULE Spec2Model ----
(***************************************************************************)
(* Model of data_visualisation_confectionary.py: a linear script that      *)
(* loads a table of confectionary sales, cleans it, aggregates it, renders *)
(* eight charts and exports three CSV files.                               *)
(*                                                                         *)
(* A column name and a date cell are sequences of one-character strings,   *)
(* so that the string operations of the script are modelled by what they   *)
(* do to the characters.  The table is a pair (columns, df): `columns' is  *)
(* the column index and every row of `df' is a tuple aligned with it.      *)
(* Numbers that the script computes in floating point are exact rationals  *)
(* <<n, d>> in lowest terms with d > 0, extended with the IEEE values      *)
(* <<1, 0>> (inf), <<-1, 0>> (-inf) and <<0, 0>> (NaN); rounding is not    *)
(* modelled.                                                               *)
(***************************************************************************)
EXTENDS Integers, Sequences, FiniteSets, TLC

VARIABLES
    pc,             \* the statement group the script is about to run
    header,         \* the column names as read from the spreadsheet
    raw,            \* the rows as read from the spreadsheet
    columns,        \* df.columns
    df,             \* the rows of df, in order
    pass,           \* how many times the cleaning statements have run
    first,          \* (columns, df) after the first cleaning pass
    avg_margin,     \* the Series avg_margin, as a sequence of <<type, mean>>
    region_revenue, \* the Series region_revenue, as <<country, sum>>
    peak_month,     \* the frame peak_month, as <<year, month, sum>> rows
    written,        \* the files written so far
    raised          \* the statement group whose exception ended the run

vars == <<pc, header, raw, columns, df, pass, first, avg_margin, region_revenue,
          peak_month, written, raised>>

Range(s) == {s[i] : i \in 1..Len(s)}

----------------------------------------------------------------------------
(* Strings                                                                 *)

\* the characters str.strip() removes
Whitespace == {" ", "\t", "\n"}

RECURSIVE lstrip(_)
lstrip(s) ==
    IF s # <<>> /\ Head(s) \in Whitespace THEN lstrip(Tail(s)) ELSE s

RECURSIVE rstrip(_)
rstrip(s) ==
    IF s # <<>> /\ s[Len(s)] \in Whitespace
    THEN rstrip(SubSeq(s, 1, Len(s) - 1))
    ELSE s

\* Index.str.strip()
str_strip(s) == rstrip(lstrip(s))

StartsWith(s, t) == Len(s) >= Len(t) /\ SubSeq(s, 1, Len(t)) = t

\* Index.str.replace(old, new) with a literal pattern (regex=False, the
\* default of pandas 2): left to right, non-overlapping
RECURSIVE str_replace(_, _, _)
str_replace(s, old, new) ==
    IF s = <<>> THEN <<>>
    ELSE IF StartsWith(s, old)
         THEN new \o str_replace(SubSeq(s, Len(old) + 1, Len(s)), old, new)
         ELSE <<Head(s)>> \o str_replace(Tail(s), old, new)

\* Index.str.replace(r"[\(\)]", "", regex=True)
str_remove_parens(s) == SelectSeq(s, LAMBDA c : c \notin {"(", ")"})

\* the steps of lines 22-27 with the parentheses removed before the token
\* is replaced
ParensFirstColumnName(s) ==
    str_replace(
        str_remove_parens(str_replace(str_strip(s), <<" ">>, <<"_">>)),
        <<"(", "£", ")">>, <<"G", "B", "P">>)

\* the chain of lines 22-27 on one column name
CleanColumnName(s) ==
    str_remove_parens(
        str_replace(str_replace(str_strip(s), <<" ">>, <<"_">>),
                    <<"(", "£", ")">>, <<"G", "B", "P">>))

----------------------------------------------------------------------------
(* Dates                                                                   *)

\* A Date cell is <<"str", chars>> as loaded, and after pd.to_datetime it
\* is <<"ts", year, month, day>> or the missing marker NaT.
NaT == <<"NaT">>

DigitVal ==
    ("0" :> 0) @@ ("1" :> 1) @@ ("2" :> 2) @@ ("3" :> 3) @@ ("4" :> 4) @@
    ("5" :> 5) @@ ("6" :> 6) @@ ("7" :> 7) @@ ("8" :> 8) @@ ("9" :> 9)

IsNumber(s) == s # <<>> /\ \A i \in 1..Len(s) : s[i] \in DOMAIN DigitVal

RECURSIVE ToNat(_)
ToNat(s) ==
    IF s = <<>> THEN 0
    ELSE 10 * ToNat(SubSeq(s, 1, Len(s) - 1)) + DigitVal[s[Len(s)]]

\* the fields of s between the separators: a scan from position i with
\* the field being read and the fields already closed
RECURSIVE SplitFrom(_, _, _, _, _)
SplitFrom(s, sep, i, field, closed) ==
    IF i > Len(s) THEN Append(closed, field)
    ELSE IF s[i] = sep
         THEN SplitFrom(s, sep, i + 1, <<>>, Append(closed, field))
         ELSE SplitFrom(s, sep, i + 1, Append(field, s[i]), closed)

Split(s, sep) == SplitFrom(s, sep, 1, <<>>, <<>>)

IsLeap(y) == (y % 4 = 0 /\ y % 100 # 0) \/ y % 400 = 0

DaysInMonth(y, m) ==
    IF m = 2 THEN (IF IsLeap(y) THEN 29 ELSE 28)
    ELSE IF m \in {4, 6, 9, 11} THEN 30 ELSE 31

\* the day-first reading of a date string written day/month/year; whatever
\* does not read as one is coerced to NaT (errors="coerce")
ParseDayFirst(s) ==
    LET f == Split(s, "/") IN
    IF /\ Len(f) = 3
       /\ \A i \in 1..3 : IsNumber(f[i])
       /\ Len(f[1]) <= 2 /\ Len(f[2]) <= 2 /\ Len(f[3]) = 4
    THEN LET d == ToNat(f[1])
             m == ToNat(f[2])
             y == ToNat(f[3])
         IN  IF m \in 1..12 /\ d >= 1 /\ d <= DaysInMonth(y, m)
             THEN <<"ts", y, m, d>>
             ELSE NaT
    ELSE NaT

\* pd.to_datetime(cell, dayfirst=True, errors="coerce"); a cell that is
\* already a timestamp is left as it is
to_datetime(cell) ==
    IF cell[1] = "str" THEN ParseDayFirst(cell[2]) ELSE cell

isna(cell) == cell = NaT

\* Timestamp order, on non-missing timestamps
DateLeq(a, b) ==
    \/ a[2] < b[2]
    \/ a[2] = b[2] /\ a[3] < b[3]
    \/ a[2] = b[2] /\ a[3] = b[3] /\ a[4] <= b[4]

\* Series.dt.month_name()
MonthNames ==
    <<"January", "February", "March", "April", "May", "June", "July",
      "August", "September", "October", "November", "December">>

month_name(ts) == MonthNames[ts[3]]

----------------------------------------------------------------------------
(* Numbers                                                                 *)

NaN == <<0, 0>>
PosInf == <<1, 0>>
NegInf == <<-1, 0>>

Abs(n) == IF n < 0 THEN -n ELSE n
Sgn(n) == IF n < 0 THEN -1 ELSE IF n = 0 THEN 0 ELSE 1

RECURSIVE GCD(_, _)
GCD(a, b) == IF b = 0 THEN a ELSE GCD(b, a % b)

\* the rational n/d, d # 0, in lowest terms with a positive denominator
Rat(n, d) ==
    LET g == GCD(Abs(n), Abs(d)) IN <<(Sgn(d) * n) \div g, Abs(d) \div g>>

IsFinite(x) == x[2] # 0

\* float division of two integers: x/0 is inf, -inf or NaN, never an error
TrueDiv(p, r) == IF r = 0 THEN <<Sgn(p), 0>> ELSE Rat(p, r)

\* float times a positive integer
Times(x, k) == IF IsFinite(x) THEN Rat(x[1] * k, x[2]) ELSE x

\* float divided by a positive integer
Over(x, k) == IF IsFinite(x) THEN Rat(x[1], x[2] * k) ELSE x

\* float addition
Plus(x, y) ==
    IF x = NaN \/ y = NaN THEN NaN
    ELSE IF ~IsFinite(x) /\ ~IsFinite(y) THEN (IF x = y THEN x ELSE NaN)
    ELSE IF ~IsFinite(x) THEN x
    ELSE IF ~IsFinite(y) THEN y
    ELSE Rat(x[1] * y[2] + y[1] * x[2], x[2] * y[2])

\* x <= y on floats that are not NaN
NumLeq(x, y) ==
    IF x = NegInf \/ y = PosInf THEN TRUE
    ELSE IF x = PosInf \/ y = NegInf THEN FALSE
    ELSE x[1] * y[2] <= y[1] * x[2]

----------------------------------------------------------------------------
(* The table                                                               *)

\* the column names the script spells out as string literals
DATE == <<"D", "a", "t", "e">>
CONFECTIONARY == <<"C", "o", "n", "f", "e", "c", "t", "i", "o", "n", "a", "r", "y">>
COUNTRY_UK == <<"C", "o", "u", "n", "t", "r", "y", "U", "K">>
UNITS_SOLD == <<"U", "n", "i", "t", "s", "_", "S", "o", "l", "d">>
REVENUE_GBP == <<"R", "e", "v", "e", "n", "u", "e", "G", "B", "P">>
PROFIT_GBP == <<"P", "r", "o", "f", "i", "t", "G", "B", "P">>
YEAR == <<"Y", "e", "a", "r">>
MONTH == <<"M", "o", "n", "t", "h">>
PROFIT_MARGIN == <<"P", "r", "o", "f", "i", "t", "_", "M", "a", "r", "g", "i", "n", "_", "%">>

\* the position of column `name' in the column index `cols'
Col(cols, name) == CHOOSE i \in 1..Len(cols) : cols[i] = name

\* df[name] of one row
Cell(cols, row, name) == row[Col(cols, name)]

\* the column index after df[name] = ...: a new name is appended, an
\* existing one is kept where it is
SetColumnIndexAlwaysAppend(cols, name) == Append(cols, name)

SetColumnIndex(cols, name) ==
    IF name \in Range(cols) THEN cols ELSE Append(cols, name)

\* one row after df[name] = v
SetCell(cols, row, name, v) ==
    IF name \in Range(cols)
    THEN [row EXCEPT ![Col(cols, name)] = v]
    ELSE Append(row, v)

\* DataFrame.drop_duplicates(): a row is kept unless an earlier row equals
\* it in every column (keep="first")
KeepAllRows(rows) == rows

RECURSIVE drop_duplicates(_)
drop_duplicates(rows) ==
    IF rows = <<>> THEN <<>>
    ELSE LET n == Len(rows)
             front == SubSeq(rows, 1, n - 1)
         IN  IF rows[n] \in Range(front)
             THEN drop_duplicates(front)
             ELSE Append(drop_duplicates(front), rows[n])

\* DataFrame.dropna(subset=[name])
KeepMissing(cols, rows, name) == rows

dropna(cols, rows, name) ==
    SelectSeq(rows, LAMBDA r : ~isna(Cell(cols, r, name)))

\* the order of sort_values on a datetime column, missing values last
KeyGeq(a, b) == isna(a) \/ (~isna(b) /\ DateLeq(b, a))

KeyLeq(a, b) == isna(b) \/ (~isna(a) /\ DateLeq(a, b))

Perms(n) == {p \in [1..n -> 1..n] : \A i, j \in 1..n : i # j => p[i] # p[j]}

\* the results DataFrame.sort_values(name) may give: the default
\* kind="quicksort" is not stable, so rows with equal keys come out in any
\* order
sort_values(cols, rows, name) ==
    LET n == Len(rows)
        c == Col(cols, name)
    IN  {[i \in 1..n |-> rows[p[i]]] :
            p \in {q \in Perms(n) :
                     \A i \in 1..(n - 1) :
                        KeyLeq(rows[q[i]][c], rows[q[i + 1]][c])}}

----------------------------------------------------------------------------
(* Aggregates                                                              *)

RECURSIVE SumFloat(_)
SumFloat(xs) == IF xs = <<>> THEN <<0, 1>> ELSE Plus(Head(xs), SumFloat(Tail(xs)))

RECURSIVE SumInt(_)
SumInt(xs) == IF xs = <<>> THEN 0 ELSE Head(xs) + SumInt(Tail(xs))

\* the cells of column `name' in the rows of the group `k' of column `key'
GroupCells(cols, rows, key, k, name) ==
    LET g == SelectSeq(rows, LAMBDA r : Cell(cols, r, key) = k)
    IN  [i \in 1..Len(g) |-> Cell(cols, g[i], name)]

\* a mean that counts the missing values in
mean_keepna(xs) == IF xs = <<>> THEN NaN ELSE Over(SumFloat(xs), Len(xs))

\* GroupBy.mean(): missing values are skipped, a group without values is NaN
mean(xs) ==
    LET present == SelectSeq(xs, LAMBDA x : x # NaN)
    IN  IF present = <<>> THEN NaN
        ELSE Over(SumFloat(present), Len(present))

\* the order of Series.sort_values(ascending=False) on floats, NaN last
FloatDescending(a, b) == b[2] = NaN \/ (a[2] # NaN /\ NumLeq(b[2], a[2]))

IntAscending(a, b) == a[Len(a)] <= b[Len(b)]

\* the order of sort_values(..., ascending=False) on integer sums; the
\* sum is the last field of an entry
IntDescending(a, b) == a[Len(a)] >= b[Len(b)]

\* the ways to lay out the entries so that neighbours satisfy Before: the
\* results an unstable sort may give
Orderings(entries, Before(_, _)) ==
    LET n == Cardinality(entries)
    IN  {s \in [1..n -> entries] :
            /\ \A i, j \in 1..n : i # j => s[i] # s[j]
            /\ \A i \in 1..(n - 1) : Before(s[i], s[i + 1])}

\* df.groupby("Confectionary")["Profit_Margin_%"].mean()
MarginByType(cols, rows) ==
    {<<t, mean(GroupCells(cols, rows, CONFECTIONARY, t, PROFIT_MARGIN))>> :
        t \in {Cell(cols, r, CONFECTIONARY) : r \in Range(rows)}}

\* df.groupby("CountryUK")["RevenueGBP"].sum()
RevenueByRegion(cols, rows) ==
    {<<c, SumInt(GroupCells(cols, rows, COUNTRY_UK, c, REVENUE_GBP))>> :
        c \in {Cell(cols, r, COUNTRY_UK) : r \in Range(rows)}}

\* df.groupby(["Year", "Month"])["RevenueGBP"].sum().reset_index(); a row
\* whose keys are missing (its date is) belongs to no group
RevenueByMonth(cols, rows) ==
    LET keyed == SelectSeq(rows, LAMBDA r : ~isna(Cell(cols, r, DATE)))
    IN  {<<ym[1], ym[2],
           SumInt(LET g == SelectSeq(keyed, LAMBDA r :
                              /\ Cell(cols, r, YEAR) = ym[1]
                              /\ Cell(cols, r, MONTH) = ym[2])
                  IN  [i \in 1..Len(g) |-> Cell(cols, g[i], REVENUE_GBP)])>> :
            ym \in {<<Cell(cols, r, YEAR), Cell(cols, r, MONTH)>> :
                       r \in Range(keyed)}}

\* DataFrame.head(1)
head1(s) == IF s = <<>> THEN <<>> ELSE <<s[1]>>

----------------------------------------------------------------------------
(* Inputs                                                                  *)

\* the largest number of rows in a loaded table
MaxRows == 3

\* the header of the spreadsheet
SchemaHeader ==
    <<<<"D", "a", "t", "e">>,
      <<"C", "o", "u", "n", "t", "r", "y", "(", "U", "K", ")">>,
      <<"C", "o", "n", "f", "e", "c", "t", "i", "o", "n", "a", "r", "y">>,
      <<"U", "n", "i", "t", "s", " ", "S", "o", "l", "d">>,
      <<"R", "e", "v", "e", "n", "u", "e", "(", "£", ")">>,
      <<"P", "r", "o", "f", "i", "t", "(", "£", ")">>>>

\* the rows a loaded table is made of, in the order of SchemaHeader:
\* two spellings of 1 February 2024, equal dates with different figures,
\* zero revenue with zero and with non-zero profit, a date that is on no
\* calendar, dates that only read day-first, two types, two regions, two
\* months and the same month of two years
InputRows ==
    {<<<<"str", <<"0", "1", "/", "0", "2", "/", "2", "0", "2", "4">>>>, "England", "Biscuit", 5, 10, 1>>,
     <<<<"str", <<"1", "/", "2", "/", "2", "0", "2", "4">>>>, "England", "Biscuit", 5, 10, 1>>,
     <<<<"str", <<"0", "1", "/", "0", "2", "/", "2", "0", "2", "4">>>>, "England", "Biscuit", 5, 10, 3>>,
     <<<<"str", <<"0", "1", "/", "0", "2", "/", "2", "0", "2", "4">>>>, "England", "Biscuit", 5, 0, 0>>,
     <<<<"str", <<"1", "5", "/", "0", "1", "/", "2", "0", "2", "4">>>>, "Wales", "Biscuit", 5, 0, 5>>,
     <<<<"str", <<"3", "1", "/", "0", "2", "/", "2", "0", "2", "4">>>>, "Wales", "Caramel", 5, 10, 3>>,
     <<<<"str", <<"1", "5", "/", "0", "1", "/", "2", "0", "2", "3">>>>, "Wales", "Caramel", 5, 10, 3>>}

Tables == UNION {[1..n -> InputRows] : n \in 0..MaxRows}

\* the longest column name drawn from Alphabet in a one-column header
MaxNameLen == 3

\* the longest column name drawn from Alphabet in a two-column header
MaxPairNameLen == 2

Alphabet == {" ", "(", ")", "£", "a"}

ShortNames(n) == UNION {[1..k -> Alphabet] : k \in 0..n}

\* the column names a one-column header is made of: the short names over
\* Alphabet, the names of SchemaHeader and the name "Revenue (£)"
Names ==
    ShortNames(MaxNameLen) \cup Range(SchemaHeader) \cup {<<"R", "e", "v", "e", "n", "u", "e", " ", "(", "£", ")">>}

\* the column names a two-column header is made of
PairNames ==
    ShortNames(MaxPairNameLen) \cup Range(SchemaHeader)
        \cup {<<"U", "n", "i", "t", "s", "_", "S", "o", "l", "d">>}

\* headers of one column, or of two columns with distinct names
Headers ==
    {<<a>> : a \in Names}
        \cup {h \in {<<a, b>> : a \in PairNames, b \in PairNames} :
                 h[1] # h[2]}

----------------------------------------------------------------------------
(* The script                                                              *)

Init ==
    /\ pc = "names"
    /\ header = SchemaHeader
    /\ raw \in Tables
    /\ columns = header
    /\ df = raw
    /\ pass = 0
    /\ first = <<>>
    /\ avg_margin = <<>>
    /\ region_revenue = <<>>
    /\ peak_month = <<>>
    /\ written = {}
    /\ raised = "none"

\* lines 22-27
CleanColumnNames ==
    /\ pc = "names"
    /\ columns' = [i \in 1..Len(columns) |-> CleanColumnName(columns[i])]
    /\ pc' = "date"
    /\ UNCHANGED <<header, raw, df, pass, first, avg_margin, region_revenue,
                   peak_month, written, raised>>

\* line 30
ConvertDate ==
    /\ pc = "date"
    /\ df' = [i \in 1..Len(df) |->
                SetCell(columns, df[i], DATE,
                        to_datetime(Cell(columns, df[i], DATE)))]
    /\ pc' = "dedup"
    /\ UNCHANGED <<header, raw, columns, pass, first, avg_margin,
                   region_revenue, peak_month, written, raised>>

\* line 33
RemoveDuplicatesMissing ==
    /\ pc = "dedup"
    /\ df' = dropna(columns, drop_duplicates(df), DATE)
    /\ pc' = "sort"
    /\ UNCHANGED <<header, raw, columns, pass, first, avg_margin,
                   region_revenue, peak_month, written, raised>>

\* line 36
SortByDate ==
    /\ pc = "sort"
    /\ df' \in sort_values(columns, df, DATE)
    /\ pc' = "derive"
    /\ UNCHANGED <<header, raw, columns, pass, first, avg_margin,
                   region_revenue, peak_month, written, raised>>

\* df[name] = the value f gives for each row
Assign(t, name, f(_, _)) ==
    <<SetColumnIndex(t[1], name),
      [i \in 1..Len(t[2]) |-> SetCell(t[1], t[2][i], name, f(t[1], t[2][i]))]>>

\* line 39; the year of a missing date is NaN
YearOf(cols, row) ==
    IF isna(Cell(cols, row, DATE)) THEN NaN ELSE Cell(cols, row, DATE)[2]

\* line 40; the month name of a missing date is NaN
MonthOf(cols, row) ==
    IF isna(Cell(cols, row, DATE)) THEN NaN
    ELSE month_name(Cell(cols, row, DATE))

\* line 41
MarginOf(cols, row) ==
    Times(TrueDiv(Cell(cols, row, PROFIT_GBP), Cell(cols, row, REVENUE_GBP)),
          100)

\* lines 39-41
DeriveColumns ==
    /\ pc = "derive"
    /\ LET t == Assign(Assign(Assign(<<columns, df>>, YEAR, YearOf),
                              MONTH, MonthOf),
                       PROFIT_MARGIN, MarginOf)
       IN  columns' = t[1] /\ df' = t[2]
    /\ pass' = pass + 1
    /\ pc' = "cleaned"
    /\ UNCHANGED <<header, raw, first, avg_margin, region_revenue,
                   peak_month, written, raised>>

\* lines 56-60
MeanMargin ==
    /\ pc = "cleaned"
    /\ avg_margin' \in Orderings(MarginByType(columns, df), FloatDescending)
    /\ pc' = "region_revenue"
    /\ UNCHANGED <<header, raw, columns, df, pass, first, region_revenue,
                   peak_month, written, raised>>

\* lines 65-69
RegionRevenue ==
    /\ pc = "region_revenue"
    /\ region_revenue' \in
           Orderings(RevenueByRegion(columns, df), IntDescending)
    /\ pc' = "peak_month"
    /\ UNCHANGED <<header, raw, columns, df, pass, first, avg_margin,
                   peak_month, written, raised>>

\* lines 74-80
PeakMonth ==
    /\ pc = "peak_month"
    /\ \E s \in Orderings(RevenueByMonth(columns, df), IntDescending) :
           peak_month' = head1(s)
    /\ pc' = "chart_1"
    /\ UNCHANGED <<header, raw, columns, df, pass, first, avg_margin,
                   region_revenue, written, raised>>

\* A statement group that renders and writes one file.  Nothing in the
\* script catches an exception: when the rendering or the write raises,
\* the interpreter exits and no later statement runs.
WriteFile(step, file, next) ==
    /\ pc = step
    /\ \/ written' = written \cup {file} /\ pc' = next /\ UNCHANGED raised
       \/ raised' = step /\ pc' = "aborted" /\ UNCHANGED written
    /\ UNCHANGED <<header, raw, columns, df, pass, first, avg_margin,
                   region_revenue, peak_month>>

\* lines 90-97
ChartAvgMargin == WriteFile("chart_1", "1_avg_profit_margin.png", "chart_2")
\* lines 100-108
ChartRevenueTrend == WriteFile("chart_2", "2_revenue_trend.png", "chart_3")
\* lines 111-119
ChartHeatmap == WriteFile("chart_3", "3_monthly_heatmap.png", "chart_4")
\* lines 122-127
ChartUnitsProfit == WriteFile("chart_4", "4_units_vs_profit.png", "chart_5")
\* lines 133-143
ChartProfitRegion ==
    WriteFile("chart_5", "interactive_profit_region.html", "chart_6")
\* lines 146-155
ChartInteractiveTrend ==
    WriteFile("chart_6", "interactive_revenue_trend.html", "chart_7")
\* lines 158-166
ChartMarginDistribution ==
    WriteFile("chart_7", "interactive_margin_distribution.html", "chart_8")
\* lines 172-189
ChartDashboard ==
    WriteFile("chart_8", "interactive_dashboard.html", "export_1")
\* line 193
ExportCleaned == WriteFile("export_1", "Cleaned_Confectionary.csv", "export_2")
\* line 194
ExportAvgMargin == WriteFile("export_2", "Avg_Profit_Margin.csv", "export_3")
\* line 195
ExportRegionRevenue == WriteFile("export_3", "Region_Revenue.csv", "done")

Next ==
    \/ CleanColumnNames
    \/ ConvertDate
    \/ RemoveDuplicatesMissing
    \/ SortByDate
    \/ DeriveColumns
    \/ MeanMargin
    \/ RegionRevenue
    \/ PeakMonth
    \/ ChartAvgMargin
    \/ ChartRevenueTrend
    \/ ChartHeatmap
    \/ ChartUnitsProfit
    \/ ChartProfitRegion
    \/ ChartInteractiveTrend
    \/ ChartMarginDistribution
    \/ ChartDashboard
    \/ ExportCleaned
    \/ ExportAvgMargin
    \/ ExportRegionRevenue

Spec == Init /\ [][Next]_vars

----------------------------------------------------------------------------
(* The cleaning statements run a second time on their own output           *)

\* lines 22-41 are started again on the cleaned table
CleanAgain ==
    /\ pc = "cleaned"
    /\ pass = 1
    /\ first' = <<columns, df>>
    /\ pc' = "names"
    /\ UNCHANGED <<header, raw, columns, df, pass, avg_margin,
                   region_revenue, peak_month, written, raised>>

NextTwice ==
    \/ CleanColumnNames
    \/ ConvertDate
    \/ RemoveDuplicatesMissing
    \/ SortByDate
    \/ DeriveColumns
    \/ CleanAgain

SpecTwice == Init /\ [][NextTwice]_vars

----------------------------------------------------------------------------
(* The column-name statements on arbitrary headers                         *)

InitNames ==
    /\ pc = "names"
    /\ header \in Headers
    /\ raw = <<>>
    /\ columns = header
    /\ df = <<>>
    /\ pass = 0
    /\ first = <<>>
    /\ avg_margin = <<>>
    /\ region_revenue = <<>>
    /\ peak_month = <<>>
    /\ written = {}
    /\ raised = "none"

NextNames == CleanColumnNames

SpecNames == InitNames /\ [][NextNames]_vars

----------------------------------------------------------------------------
(* Properties                                                              *)

CleaningSteps == {"names", "date", "dedup", "sort", "derive"}

\* df is an output of the cleaning statements
IsClean == pass >= 1 /\ pc \notin CleaningSteps

\* avg_margin has been computed
AvgDone == IsClean /\ pc # "cleaned"

\* peak_month has been computed
PeakDone == AvgDone /\ pc \notin {"region_revenue", "peak_month"}

DateOf(row) == Cell(columns, row, DATE)

\* a timestamp as one number that grows with the calendar
DayNumber(ts) == ts[2] * 10000 + ts[3] * 100 + ts[4]

\* a loaded row with its date parsed
Parsed(r) == [r EXCEPT ![Col(header, DATE)] = to_datetime(@)]

ParsedDate(r) == Parsed(r)[Col(header, DATE)]

\* C1: after the cleaning statements every row has a non-missing Date and
\* the rows are in non-decreasing Date order
C1_DatePresentAndSorted ==
    IsClean =>
        /\ \A i \in 1..Len(df) : DateOf(df[i]) # NaT /\ DateOf(df[i])[1] = "ts"
        /\ \A i \in 1..(Len(df) - 1) :
               DayNumber(DateOf(df[i])) <= DayNumber(DateOf(df[i + 1]))

\* a table loaded latest-first and with an unreadable date has been cleaned
\* into at least two rows of different dates
C1_Witness ==
    /\ pc = "cleaned"
    /\ Len(df) >= 2
    /\ \E i \in 1..Len(raw) : ParsedDate(raw[i]) = NaT
    /\ ParsedDate(raw[1]) = DateOf(df[Len(df)])
    /\ DayNumber(DateOf(df[1])) < DayNumber(DateOf(df[Len(df)]))

\* C2: no two rows of the cleaned table, derived columns included, are
\* equal in every column
C2_NoDuplicateRows ==
    IsClean => \A i, j \in 1..Len(df) : i # j => df[i] # df[j]

\* two loaded rows that spell the same record differently have been
\* cleaned, with a third row, into a table of two rows
C2_Witness ==
    /\ pc = "cleaned"
    /\ Len(df) >= 2
    /\ Len(columns) = Len(header) + 3
    /\ \E i, j \in 1..Len(raw) :
           i # j /\ raw[i] # raw[j] /\ Parsed(raw[i]) = Parsed(raw[j])

\* the loaded columns of a cleaned row
LoadedPart(row) == SubSeq(row, 1, Len(header))

\* the distinct loaded rows, dates parsed, whose date was readable
Readable ==
    {r \in {Parsed(raw[i]) : i \in 1..Len(raw)} : r[Col(header, DATE)] # NaT}

\* C5: the table the cleaning statements hand over holds exactly one row
\* for each distinct loaded row whose Date parsed, and nothing else; three
\* rows made of a duplicate pair and one unreadable date leave one row
C5_OneRowPerReadableRecord ==
    pc = "cleaned" =>
        /\ {LoadedPart(df[i]) : i \in 1..Len(df)} = Readable
        /\ Len(df) = Cardinality(Readable)
        /\ (/\ Len(raw) = 3
            /\ \E i, j, k \in 1..3 :
                   /\ {i, j, k} = 1..3
                   /\ raw[i] = raw[j]
                   /\ raw[k] # raw[i]
                   /\ ParsedDate(raw[i]) # NaT
                   /\ ParsedDate(raw[k]) = NaT) => Len(df) = 1

\* the scenario: a duplicate pair and an unreadable date, one row left
C5_Witness ==
    /\ pc = "cleaned"
    /\ Len(raw) = 3
    /\ raw[1] = raw[3]
    /\ ParsedDate(raw[1]) # NaT
    /\ ParsedDate(raw[2]) = NaT
    /\ Len(df) = 1

MarginOfRow(row) == Cell(columns, row, PROFIT_MARGIN)

\* C3: a cleaned row whose revenue is 0 has a missing margin, and the
\* average margin of a type is the average over its rows with revenue
\* other than 0, so nothing infinite reaches it
C3_ZeroRevenueMarginMissing ==
    /\ IsClean =>
           \A i \in 1..Len(df) :
               Cell(columns, df[i], REVENUE_GBP) = 0 => MarginOfRow(df[i]) = NaN
    /\ AvgDone =>
           \A k \in 1..Len(avg_margin) :
               /\ avg_margin[k][2] \notin {PosInf, NegInf}
               /\ \/ avg_margin[k][2] # NaN
                  \/ \A i \in 1..Len(df) :
                         Cell(columns, df[i], CONFECTIONARY) = avg_margin[k][1]
                             => Cell(columns, df[i], REVENUE_GBP) = 0

\* the indices of the rows of type t whose margin is not missing
Present(t) ==
    {i \in 1..Len(df) :
        /\ Cell(columns, df[i], CONFECTIONARY) = t
        /\ MarginOfRow(df[i]) # NaN}

RECURSIVE ProductOfDenominators(_)
ProductOfDenominators(I) ==
    IF I = {} THEN 1
    ELSE LET i == CHOOSE k \in I : TRUE
         IN  MarginOfRow(df[i])[2] * ProductOfDenominators(I \ {i})

\* the sum of the margins of the rows I, all finite, times the number D
\* that every denominator divides
RECURSIVE ScaledSum(_, _)
ScaledSum(I, D) ==
    IF I = {} THEN 0
    ELSE LET i == CHOOSE k \in I : TRUE
         IN  MarginOfRow(df[i])[1] * (D \div MarginOfRow(df[i])[2])
                 + ScaledSum(I \ {i}, D)

\* m is the arithmetic mean of the margins of the rows I
IsMeanOf(m, I) ==
    LET up == \E i \in I : MarginOfRow(df[i]) = PosInf
        down == \E i \in I : MarginOfRow(df[i]) = NegInf
        D == ProductOfDenominators(I)
    IN  IF I = {} \/ (up /\ down) THEN m = NaN
        ELSE IF up THEN m = PosInf
        ELSE IF down THEN m = NegInf
        ELSE /\ m[2] > 0
             /\ m[1] * Cardinality(I) * D = m[2] * ScaledSum(I, D)

\* C6: avg_margin has one entry for each type of the cleaned table, the
\* mean of the margins of the type that are not missing (10, missing and 30
\* give 20), and the entries are in descending order of the mean
C6_MeanSkipsMissingDescending ==
    AvgDone =>
        /\ {avg_margin[k][1] : k \in 1..Len(avg_margin)}
               = {Cell(columns, df[i], CONFECTIONARY) : i \in 1..Len(df)}
        /\ \A k, l \in 1..Len(avg_margin) :
               k # l => avg_margin[k][1] # avg_margin[l][1]
        /\ \A k \in 1..Len(avg_margin) :
               IsMeanOf(avg_margin[k][2], Present(avg_margin[k][1]))
        /\ \A k, l \in 1..Len(avg_margin) :
               (k < l /\ avg_margin[k][2] # NaN /\ avg_margin[l][2] # NaN)
                   => NumLeq(avg_margin[l][2], avg_margin[k][2])
        /\ (/\ Len(df) = 3
            /\ \A i \in 1..3 : Cell(columns, df[i], CONFECTIONARY) = "Biscuit"
            /\ {MarginOfRow(df[i]) : i \in 1..3} = {<<10, 1>>, NaN, <<30, 1>>})
               => avg_margin = <<<<"Biscuit", <<20, 1>>>>>>

\* margins 10, missing and 30 of one type have been averaged to 20
C6_Witness ==
    /\ AvgDone
    /\ Len(df) = 3
    /\ {MarginOfRow(df[i]) : i \in 1..3} = {<<10, 1>>, NaN, <<30, 1>>}
    /\ avg_margin = <<<<"Biscuit", <<20, 1>>>>>>

\* two types with different means have been put in order
C6_WitnessOrder ==
    /\ AvgDone
    /\ Len(avg_margin) = 2
    /\ avg_margin[1][2] = <<30, 1>>
    /\ avg_margin[2][2] = <<10, 1>>

\* the (year, month number) of the rows of the cleaned table
Periods == {<<DateOf(df[i])[2], DateOf(df[i])[3]>> : i \in 1..Len(df)}

RECURSIVE RevenueOfRows(_)
RevenueOfRows(I) ==
    IF I = {} THEN 0
    ELSE LET i == CHOOSE k \in I : TRUE
         IN  Cell(columns, df[i], REVENUE_GBP) + RevenueOfRows(I \ {i})

\* the revenue of a (year, month number)
PeriodRevenue(p) ==
    RevenueOfRows({i \in 1..Len(df) :
                      DateOf(df[i])[2] = p[1] /\ DateOf(df[i])[3] = p[2]})

\* C7: on a non-empty cleaned table peak_month is exactly one (Year, Month)
\* group with its summed revenue, and no group has a larger sum
C7_PeakIsMaximum ==
    (PeakDone /\ df # <<>>) =>
        /\ Len(peak_month) = 1
        /\ \E p \in Periods :
               /\ peak_month[1] = <<p[1], MonthNames[p[2]], PeriodRevenue(p)>>
               /\ \A q \in Periods : PeriodRevenue(q) <= PeriodRevenue(p)

\* two months with different sums: the larger one is returned
C7_Witness ==
    /\ PeakDone
    /\ \E p, q \in Periods : PeriodRevenue(q) < PeriodRevenue(p)
    /\ Len(peak_month) = 1
    /\ \A q \in Periods : PeriodRevenue(q) <= peak_month[1][3]

\* two months tie for the largest sum
C7_WitnessTie ==
    /\ PeakDone
    /\ Len(peak_month) = 1
    /\ \E p, q \in Periods :
           /\ p # q
           /\ PeriodRevenue(p) = peak_month[1][3]
           /\ PeriodRevenue(q) = peak_month[1][3]

\* C4 as stated: cleaning a cleaned table gives the same columns and the
\* same rows in the same order
C4_SecondPassSameTable ==
    (pc = "cleaned" /\ pass = 2) => <<columns, df>> = first

\* C4: cleaning a cleaned table gives the same columns, the same rows with
\* the same values and the same sequence of dates; rows of equal Date may
\* have changed places
C4_SecondPassSameUpToTies ==
    (pc = "cleaned" /\ pass = 2) =>
        /\ columns = first[1]
        /\ Len(df) = Len(first[2])
        /\ \E p \in Perms(Len(df)) :
               \A i \in 1..Len(df) : df[i] = first[2][p[i]]
        /\ \A i \in 1..Len(df) :
               DateOf(df[i]) = Cell(first[1], first[2][i], DATE)

\* a second pass over a cleaned table of at least two rows has ended, with
\* two rows of equal Date in the other order
C4_Witness ==
    /\ pc = "cleaned"
    /\ pass = 2
    /\ Len(df) >= 2
    /\ columns = first[1]
    /\ df # first[2]

\* what the steps of the normalization make of a name, position by
\* position: s is cut to the part between its first and last
\* non-whitespace characters, its spaces become underscores, every
\* occurrence of the token becomes GBP and no other parenthesis remains
Trimmed(s) ==
    LET ink == {i \in 1..Len(s) : s[i] \notin Whitespace}
    IN  IF ink = {} THEN <<>>
        ELSE SubSeq(s, CHOOSE i \in ink : \A j \in ink : i <= j,
                       CHOOSE i \in ink : \A j \in ink : j <= i)

Underscored(s) == [k \in 1..Len(s) |-> IF s[k] = " " THEN "_" ELSE s[k]]

TokenAt(s, k) ==
    k >= 1 /\ k + 2 <= Len(s) /\ s[k] = "(" /\ s[k + 1] = "£" /\ s[k + 2] = ")"

RECURSIVE TokensReplacedParensDropped(_, _)
TokensReplacedParensDropped(s, k) ==
    IF k > Len(s) THEN <<>>
    ELSE (IF TokenAt(s, k) THEN <<"G", "B", "P">>
          ELSE IF TokenAt(s, k - 1) \/ TokenAt(s, k - 2) \/ s[k] \in {"(", ")"}
               THEN <<>>
               ELSE <<s[k]>>)
             \o TokensReplacedParensDropped(s, k + 1)

ExpectedName(s) == TokensReplacedParensDropped(Underscored(Trimmed(s)), 1)

\* C8: every column name becomes its source name stripped of surrounding
\* whitespace, then with underscores for spaces, then with GBP for each
\* "(£)", then without parentheses; "Revenue (£)" becomes "Revenue_GBP"
C8_NormalizedNames ==
    pc # "names" =>
        /\ Len(columns) = Len(header)
        /\ \A i \in 1..Len(header) :
               /\ columns[i] = ExpectedName(header[i])
               /\ header[i] = <<"R", "e", "v", "e", "n", "u", "e", " ", "(", "£", ")">>
                      => columns[i] = <<"R", "e", "v", "e", "n", "u", "e", "_", "G", "B", "P">>

\* the header "Revenue (£)" has been normalized to "Revenue_GBP"
C8_Witness ==
    /\ pc # "names"
    /\ header = <<<<"R", "e", "v", "e", "n", "u", "e", " ", "(", "£", ")">>>>
    /\ columns = <<<<"R", "e", "v", "e", "n", "u", "e", "_", "G", "B", "P">>>>

\* C9: distinct source column names have distinct normalized names
C9_NoCollision ==
    pc # "names" =>
        \A i, j \in 1..Len(header) :
            header[i] # header[j] => columns[i] # columns[j]

ChartSteps ==
    {"chart_1", "chart_2", "chart_3", "chart_4", "chart_5", "chart_6",
     "chart_7", "chart_8"}

ChartFiles ==
    {"1_avg_profit_margin.png", "2_revenue_trend.png",
     "3_monthly_heatmap.png", "4_units_vs_profit.png",
     "interactive_profit_region.html", "interactive_revenue_trend.html",
     "interactive_margin_distribution.html", "interactive_dashboard.html"}

ChartFileOf ==
    [step \in ChartSteps |->
        CASE step = "chart_1" -> "1_avg_profit_margin.png"
          [] step = "chart_2" -> "2_revenue_trend.png"
          [] step = "chart_3" -> "3_monthly_heatmap.png"
          [] step = "chart_4" -> "4_units_vs_profit.png"
          [] step = "chart_5" -> "interactive_profit_region.html"
          [] step = "chart_6" -> "interactive_revenue_trend.html"
          [] step = "chart_7" -> "interactive_margin_distribution.html"
          [] step = "chart_8" -> "interactive_dashboard.html"]

\* C10: when the run has ended and one chart failed to render, every other
\* chart file has been written
C10_OtherChartsWritten ==
    (pc \in {"done", "aborted"} /\ raised \in ChartSteps) =>
        ChartFiles \ {ChartFileOf[raised]} \subseteq written

====
